---- MODULE Spec2Model ----
(***************************************************************************)
(* Chat history persistence layer: the SQLite record store                 *)
(* (src/src/utils/database.py, ChatHistoryDatabase) and the session        *)
(* facade over it (src/src/utils/history_manager.py, ChatHistoryManager).  *)
(*                                                                         *)
(* Text is a sequence of one-character strings.  model_name and           *)
(* created_at are stored but never read back by any modelled decision and  *)
(* are left out of the rows.                                               *)
(***************************************************************************)
EXTENDS Integers, Sequences, FiniteSets, TLC

(* ---------------------------------------------------------------- bounds *)
MaxMessages == 2
MaxConversations == 2
MaxTime == 1
MaxUuids == 1
MaxFragments == 3

(* ------------------------------------------------------------ input sets *)
None == "None"
NoneId == 0
NoImage == "NoImage"

DirectIds == {"s1", "s2"}
Uuid(n) == IF n = 1 THEN "u1" ELSE IF n = 2 THEN "u2" ELSE "u3"
ValidRoles == {"user", "assistant"}
(* the (role, content, image) triples handed to save_message *)
MessageInputs ==
    { <<"user", <<"a", "_", "c">>, "PNG">>, <<"assistant", <<"a", "b", "c">>, NoImage>>,
      <<"system", <<"a", "b", "c">>, NoImage>> }
ValidInputs == {i \in MessageInputs : i[1] \in ValidRoles}
UserInputs == {i \in MessageInputs : i[1] = "user"}
AssistantInputs == {i \in MessageInputs : i[1] = "assistant"}
Queries == { <<"a", "_", "c">>, <<"%">>, <<"a", "b">> }
NoLimit == -1
Limits == {NoLimit, 0, 1}
DefaultSearchLimit == 50
DefaultListLimit == 100
SearchLimits == {1, DefaultSearchLimit}
FailPoints == {"ok", "connect", "delete_messages", "delete_conversations", "commit"}

VARIABLES
    conversations,   \* rows of table conversations
    messages,        \* rows of table messages
    seqConv,         \* sqlite_sequence entry of conversations (AUTOINCREMENT)
    seqMsg,          \* sqlite_sequence entry of messages (AUTOINCREMENT)
    foreign_keys,    \* whether the SQLite build enforces FOREIGN KEY clauses
    now,             \* CURRENT_TIMESTAMP, whole seconds
    current,         \* ChatHistoryManager._current_session_id
    minted,          \* number of uuid4() values drawn so far
    log,             \* history: per session, what was saved since its last deletion
    last,            \* history: the last call, its arguments and its result
    uploaded_file,   \* app.py: the file held by the sidebar's st.file_uploader
    session_state,   \* st.session_state: current_session_id, confirm_clear_all
    run,             \* app.py: where the script run of a submitted prompt stands
    calls,           \* save_message calls in flight, one per connection
    confirmed        \* history: a confirming click happened since the last clear

vars == <<conversations, messages, seqConv, seqMsg, foreign_keys, now,
          current, minted, log, last,
          uploaded_file, session_state, run, calls, confirmed>>
store == <<conversations, messages, seqConv, seqMsg>>
frontend == <<uploaded_file, session_state, run, calls, confirmed>>

(* the two connections that may hold a save_message call in flight *)
Callers == {1, 2}
IdleCall == [pc |-> "idle", sid |-> None, content |-> <<>>, cid |-> NoneId, ok |-> TRUE]

(* uploaded_file is None: no blob supplied, no file in the uploader *)
NoFile == [supplied |-> FALSE, name |-> None, content |-> <<>>, pos |-> 0]

(* the front end before any script run: nothing uploaded, nothing clicked *)
InitFrontend ==
    /\ uploaded_file = NoFile
    /\ session_state = [current_session_id |-> None, confirm_clear_all |-> FALSE]
    /\ run = [pc |-> "idle"]
    /\ calls = [p \in Callers |-> IdleCall]
    /\ confirmed = FALSE

(* session ids a caller of the manager can name: a literal one and the  *)
(* uuids minted so far                                                  *)
KnownIds == {"s1"} \cup {Uuid(n) : n \in 1..minted}
AllIds == DirectIds \cup {Uuid(n) : n \in 1..MaxUuids + 1}

(* ----------------------------------------------------------- record store *)
Title(content) ==
    IF Len(content) > 50 THEN SubSeq(content, 1, 50) \o <<".", ".", ".">>
    ELSE content

get_conversation_id(sid) ==
    IF \E c \in conversations : c.session_id = sid
    THEN (CHOOSE c \in conversations : c.session_id = sid).id
    ELSE NoneId

(* faulty variant: session_id without its UNIQUE constraint *)
create_conversation_result_NoUnique(sid, title) ==
    [ok |-> TRUE, ret |-> seqConv + 1,
     convs |-> conversations \cup
               {[id |-> seqConv + 1, session_id |-> sid, title |-> title,
                 updated_at |-> now]},
     seq |-> seqConv + 1]

(* faulty variant: id INTEGER PRIMARY KEY without AUTOINCREMENT, the new  *)
(* row takes the largest id in the table plus one                        *)
create_conversation_result_Rowid(sid, title) ==
    LET id == IF conversations = {} THEN 1
              ELSE (CHOOSE c \in conversations : \A d \in conversations : d.id <= c.id).id + 1
    IN  IF \E c \in conversations : c.session_id = sid
        THEN [ok |-> FALSE, ret |-> "IntegrityError", convs |-> conversations, seq |-> seqConv]
        ELSE [ok |-> TRUE, ret |-> id,
              convs |-> conversations \cup
                        {[id |-> id, session_id |-> sid, title |-> title, updated_at |-> now]},
              seq |-> seqConv + 1]

(* INSERT INTO conversations: the UNIQUE constraint on session_id decides *)
create_conversation_result(sid, title) ==
    IF \E c \in conversations : c.session_id = sid
    THEN [ok |-> FALSE, ret |-> "IntegrityError", convs |-> conversations, seq |-> seqConv]
    ELSE [ok |-> TRUE, ret |-> seqConv + 1,
          convs |-> conversations \cup
                    {[id |-> seqConv + 1, session_id |-> sid, title |-> title,
                      updated_at |-> now]},
          seq |-> seqConv + 1]

bump_updated_at(convs, cid) ==
    {IF c.id = cid THEN [c EXCEPT !.updated_at = now] ELSE c : c \in convs}

message_row(cid, role, content, image) ==
    [id |-> seqMsg + 1, conversation_id |-> cid, role |-> role,
     content |-> content, has_image |-> image # NoImage,
     image_data |-> IF image = NoImage THEN "NULL" ELSE <<"b64", image>>,
     image_format |-> IF image = NoImage THEN "NULL" ELSE image,
     timestamp |-> now]

(* images whose image.save(buffer, format=image_format) raises *)
Unencodable == {"BAD"}

(* faulty variant: table messages without its CHECK on role *)
save_message_result_NoCheck(sid, role, content, image) ==
    LET cid0 == get_conversation_id(sid)
        cr == IF cid0 = NoneId
              THEN create_conversation_result(sid, Title(content))
              ELSE [ok |-> TRUE, ret |-> cid0, convs |-> conversations, seq |-> seqConv]
    IN  [ok |-> TRUE, ret |-> seqMsg + 1,
         convs |-> bump_updated_at(cr.convs, cr.ret),
         msgs |-> messages \cup {message_row(cr.ret, role, content, image)},
         seqC |-> cr.seq, seqM |-> seqMsg + 1]

(* save_message: look the conversation up, create it when absent (its own  *)
(* committed transaction), encode the image, then insert the message and    *)
(* bump updated_at in one transaction, which the CHECK on role can abort.   *)
save_message_result(sid, role, content, image) ==
    LET cid0 == get_conversation_id(sid)
        cr == IF cid0 = NoneId
              THEN create_conversation_result(sid, Title(content))
              ELSE [ok |-> TRUE, ret |-> cid0, convs |-> conversations, seq |-> seqConv]
        cid == cr.ret
    IN  IF image \in Unencodable
        THEN [ok |-> FALSE, ret |-> "OSError",
              convs |-> cr.convs, msgs |-> messages,
              seqC |-> cr.seq, seqM |-> seqMsg]
        ELSE IF role \in ValidRoles
        THEN [ok |-> TRUE, ret |-> seqMsg + 1,
              convs |-> bump_updated_at(cr.convs, cid),
              msgs |-> messages \cup {message_row(cid, role, content, image)},
              seqC |-> cr.seq, seqM |-> seqMsg + 1]
        ELSE [ok |-> FALSE, ret |-> "IntegrityError",
              convs |-> cr.convs, msgs |-> messages,
              seqC |-> cr.seq, seqM |-> seqMsg]

(* where a save_message call can fail: in create_conversation, in the     *)
(* INSERT, in the UPDATE after the INSERT, or in the commit                *)
SaveFailPoints == {"ok", "create", "insert", "update", "commit"}

(* faulty variant: the INSERT committed on its own, before the UPDATE runs *)
insert_and_bump_Autocommit(convs, cid, role, content, image, fail) ==
    IF role \in ValidRoles /\ fail \notin {"insert"}
    THEN [ok |-> fail = "ok",
          convs |-> IF fail = "update" THEN convs ELSE bump_updated_at(convs, cid),
          msgs |-> messages \cup {message_row(cid, role, content, image)},
          seqM |-> seqMsg + 1]
    ELSE [ok |-> FALSE, convs |-> convs, msgs |-> messages, seqM |-> seqMsg]

(* the with-block of save_message: INSERT INTO messages and UPDATE         *)
(* conversations run in one transaction, committed at its end; an          *)
(* exception anywhere in the block rolls both back                         *)
insert_and_bump(convs, cid, role, content, image, fail) ==
    IF role \in ValidRoles /\ fail = "ok"
    THEN [ok |-> TRUE,
          convs |-> bump_updated_at(convs, cid),
          msgs |-> messages \cup {message_row(cid, role, content, image)},
          seqM |-> seqMsg + 1]
    ELSE [ok |-> FALSE, convs |-> convs, msgs |-> messages, seqM |-> seqMsg]

(* save_message with a failure injected at one of its steps: the           *)
(* conversation row, once created, is committed before the with-block of   *)
(* the message starts                                                      *)
save_message_interrupted(sid, role, content, image, fail) ==
    LET cid0 == get_conversation_id(sid)
        cr == IF cid0 # NoneId
              THEN [ok |-> TRUE, ret |-> cid0, convs |-> conversations, seq |-> seqConv]
              ELSE IF fail = "create"
              THEN [ok |-> FALSE, ret |-> NoneId, convs |-> conversations, seq |-> seqConv]
              ELSE create_conversation_result(sid, Title(content))
        tx == insert_and_bump(cr.convs, cr.ret, role, content, image,
                              IF fail = "create" THEN "ok" ELSE fail)
    IN  IF ~cr.ok
        THEN [ok |-> FALSE, convs |-> conversations, msgs |-> messages,
              seqC |-> seqConv, seqM |-> seqMsg]
        ELSE [ok |-> tx.ok, convs |-> tx.convs, msgs |-> tx.msgs,
              seqC |-> cr.seq, seqM |-> tx.seqM]

(* what load_messages hands back for one row *)
loaded(m) ==
    [role |-> m.role, content |-> m.content, timestamp |-> m.timestamp,
     image |-> IF m.has_image /\ m.image_data # "NULL" THEN m.image_data[2] ELSE NoImage]

(* every order of the rows in S that ORDER BY timestamp ASC admits: rows   *)
(* with equal timestamps have no defined relative order                     *)
OrderedByTimestamp(S, asc) ==
    {f \in [1..Cardinality(S) -> S] :
        /\ \A i, j \in 1..Cardinality(S) : i # j => f[i] # f[j]
        /\ \A i, j \in 1..Cardinality(S) : i < j =>
              IF asc THEN f[i].timestamp <= f[j].timestamp
                     ELSE f[i].timestamp >= f[j].timestamp}

Take(s, n) == IF n < Len(s) THEN SubSeq(s, 1, n) ELSE s

(* faulty variant: the SELECT without its WHERE conversation_id = ? *)
load_messages_NoWhere(sid, limit) ==
    LET cid == get_conversation_id(sid)
    IN  IF cid = NoneId THEN {<<>>}
        ELSE {[i \in 1..Len(r) |-> loaded(r[i])] :
                r \in {IF limit = NoLimit \/ limit = 0 THEN f ELSE Take(f, limit) :
                         f \in OrderedByTimestamp(messages, TRUE)}}

load_messages(sid, limit) ==
    LET cid == get_conversation_id(sid)
        rows == {m \in messages : m.conversation_id = cid}
    IN  IF cid = NoneId THEN {<<>>}
        ELSE {[i \in 1..Len(r) |-> loaded(r[i])] :
                r \in {IF limit = NoLimit \/ limit = 0 THEN f ELSE Take(f, limit) :
                         f \in OrderedByTimestamp(rows, TRUE)}}

(* SQLite LIKE: % matches any run of characters, _ any one character, and  *)
(* ASCII letters match without regard to case                              *)
Fold(ch) == IF ch = "A" THEN "a" ELSE IF ch = "B" THEN "b" ELSE IF ch = "C" THEN "c" ELSE ch

RECURSIVE Like(_, _)
Like(pat, str) ==
    IF pat = <<>> THEN str = <<>>
    ELSE IF Head(pat) = "%"
         THEN Like(Tail(pat), str) \/ (str # <<>> /\ Like(pat, Tail(str)))
         ELSE /\ str # <<>>
              /\ (Head(pat) = "_" \/ Fold(Head(pat)) = Fold(Head(str)))
              /\ Like(Tail(pat), Tail(str))

(* the rows of messages JOIN conversations with content LIKE '%query%' *)
search_rows(query) ==
    {m \in messages :
        /\ \E c \in conversations : c.id = m.conversation_id
        /\ Like(<<"%">> \o query \o <<"%">>, m.content)}

found(m) ==
    LET c == CHOOSE c \in conversations : c.id = m.conversation_id
    IN  [session_id |-> c.session_id, title |-> c.title, role |-> m.role,
         content |-> m.content, timestamp |-> m.timestamp]

search_messages(query, limit) ==
    {[i \in 1..Len(r) |-> found(r[i])] :
        r \in {Take(f, limit) : f \in OrderedByTimestamp(search_rows(query), FALSE)}}

message_count(c) == Cardinality({m \in messages : m.conversation_id = c.id})

listed(c) ==
    [session_id |-> c.session_id, title |-> c.title,
     updated_at |-> c.updated_at, message_count |-> message_count(c)]

OrderedByUpdatedAtDesc(S) ==
    {f \in [1..Cardinality(S) -> S] :
        /\ \A i, j \in 1..Cardinality(S) : i # j => f[i] # f[j]
        /\ \A i, j \in 1..Cardinality(S) : i < j => f[i].updated_at >= f[j].updated_at}

get_conversations(limit) ==
    {[i \in 1..Len(r) |-> listed(r[i])] :
        r \in {Take(f, limit) : f \in OrderedByUpdatedAtDesc(conversations)}}

(* faulty variant: the DELETE without its WHERE session_id = ? *)
delete_conversation_result_NoWhere(sid) ==
    [ret |-> conversations # {},
     convs |-> {},
     msgs |-> IF foreign_keys THEN {} ELSE messages]

(* DELETE FROM conversations WHERE session_id = ?; the ON DELETE CASCADE   *)
(* of messages.conversation_id acts only when foreign keys are enforced    *)
delete_conversation_result(sid) ==
    LET gone == {c \in conversations : c.session_id = sid}
    IN  [ret |-> gone # {},
         convs |-> conversations \ gone,
         msgs |-> IF foreign_keys
                  THEN {m \in messages : \A c \in gone : m.conversation_id # c.id}
                  ELSE messages]

(* faulty variant: each DELETE committed on its own, nothing rolled back *)
clear_all_history_result_NoRollback(fail) ==
    [ret |-> fail = "ok",
     convs |-> IF fail = "ok" THEN {} ELSE conversations,
     msgs |-> IF fail \in {"ok", "delete_conversations", "commit"} THEN {} ELSE messages]

(* clear_all_history: both DELETEs run in one transaction; an exception    *)
(* at any point leaves the with-block, which rolls the transaction back,   *)
(* and is turned into False                                                *)
clear_all_history_result(fail) ==
    LET committed == fail = "ok"
    IN  [ret |-> committed,
         convs |-> IF committed THEN {} ELSE conversations,
         msgs |-> IF committed THEN {} ELSE messages]

get_database_info ==
    [conversation_count |-> Cardinality(conversations),
     message_count |-> Cardinality(messages),
     image_message_count |-> Cardinality({m \in messages : m.has_image})]

(* ---------------------------------------------------------------- actions *)
Init ==
    /\ conversations = {}
    /\ messages = {}
    /\ seqConv = 0
    /\ seqMsg = 0
    /\ foreign_keys \in BOOLEAN
    /\ now = 0
    /\ current = None
    /\ minted = 0
    /\ log = [s \in AllIds |-> <<>>]
    /\ last = [op |-> "init"]
    /\ InitFrontend

(* the wall clock advances between calls *)
Tick ==
    /\ now < MaxTime
    /\ now' = now + 1
    /\ last' = [op |-> "tick"]
    /\ UNCHANGED <<store, foreign_keys, frontend, current, minted, log>>

CanSave(sid) ==
    /\ seqMsg < MaxMessages
    /\ get_conversation_id(sid) = NoneId => seqConv < MaxConversations

(* the store's part of every call that ends in db.save_message *)
ApplySave(op, sid, role, content, image) ==
    LET r == save_message_result(sid, role, content, image)
    IN  /\ conversations' = r.convs
        /\ messages' = r.msgs
        /\ seqConv' = r.seqC
        /\ seqMsg' = r.seqM
        /\ log' = IF ~r.ok THEN log
                  ELSE [log EXCEPT ![sid] = Append(@, [role |-> role, content |-> content,
                                                       image |-> image])]
        /\ last' = [op |-> op, sid |-> sid, role |-> role, content |-> content,
                    image |-> image, ok |-> r.ok, ret |-> r.ret]

SaveMessageInterrupted(sid, role, content, image, fail) ==
    /\ CanSave(sid)
    /\ LET r == save_message_interrupted(sid, role, content, image, fail)
       IN  /\ conversations' = r.convs
           /\ messages' = r.msgs
           /\ seqConv' = r.seqC
           /\ seqMsg' = r.seqM
           /\ log' = IF ~r.ok THEN log
                     ELSE [log EXCEPT ![sid] = Append(@, [role |-> role, content |-> content,
                                                          image |-> image])]
           /\ last' = [op |-> "save_message", sid |-> sid, fail |-> fail, ok |-> r.ok]
    /\ UNCHANGED <<foreign_keys, frontend, now, current, minted>>

CreateConversation(sid, title) ==
    /\ seqConv < MaxConversations
    /\ LET r == create_conversation_result(sid, title)
       IN  /\ conversations' = r.convs
           /\ seqConv' = r.seq
           /\ last' = [op |-> "create_conversation", sid |-> sid, ok |-> r.ok, ret |-> r.ret]
    /\ UNCHANGED <<messages, seqMsg, foreign_keys, frontend, now, current, minted, log>>

SaveMessage(sid, role, content, image) ==
    /\ CanSave(sid)
    /\ ApplySave("save_message", sid, role, content, image)
    /\ UNCHANGED <<foreign_keys, frontend, now, current, minted>>

LoadMessages(sid, limit) ==
    /\ \E r \in load_messages(sid, limit) :
          last' = [op |-> "load_messages", sid |-> sid, limit |-> limit, ret |-> r]
    /\ UNCHANGED <<store, foreign_keys, frontend, now, current, minted, log>>

SearchMessages(query, limit) ==
    /\ \E r \in search_messages(query, limit) :
          last' = [op |-> "search_messages", query |-> query, limit |-> limit, ret |-> r]
    /\ UNCHANGED <<store, foreign_keys, frontend, now, current, minted, log>>

GetConversations(limit) ==
    /\ \E r \in get_conversations(limit) :
          last' = [op |-> "get_conversations", limit |-> limit, ret |-> r]
    /\ UNCHANGED <<store, foreign_keys, frontend, now, current, minted, log>>

GetDatabaseInfo ==
    /\ last' = [op |-> "get_database_info", ret |-> get_database_info]
    /\ UNCHANGED <<store, foreign_keys, frontend, now, current, minted, log>>

DeleteConversation(sid) ==
    /\ LET r == delete_conversation_result(sid)
       IN  /\ conversations' = r.convs
           /\ messages' = r.msgs
           /\ log' = IF r.ret THEN [log EXCEPT ![sid] = <<>>] ELSE log
           /\ last' = [op |-> "delete_conversation", sid |-> sid, ret |-> r.ret]
    /\ UNCHANGED <<seqConv, seqMsg, foreign_keys, frontend, now, current, minted>>

ClearAllHistory(fail) ==
    /\ LET r == clear_all_history_result(fail)
       IN  /\ conversations' = r.convs
           /\ messages' = r.msgs
           /\ log' = IF r.ret THEN [s \in AllIds |-> <<>>] ELSE log
           /\ last' = [op |-> "clear_all_history", ret |-> r.ret]
    /\ UNCHANGED <<seqConv, seqMsg, foreign_keys, frontend, now, current, minted>>

(* ------------------------------------------------------- history manager *)
(* faulty variant: the conversation row written as soon as the session starts *)
start_new_session_result_Eager ==
    [ret |-> Uuid(minted + 1), cur |-> Uuid(minted + 1), n |-> minted + 1,
     convs |-> conversations \cup
               {[id |-> seqConv + 1, session_id |-> Uuid(minted + 1), title |-> <<>>,
                 updated_at |-> now]},
     seq |-> seqConv + 1]

(* uuid4() is taken to return a value no caller has seen before *)
start_new_session_result ==
    [ret |-> Uuid(minted + 1), cur |-> Uuid(minted + 1), n |-> minted + 1,
     convs |-> conversations, seq |-> seqConv]

StartNewSession ==
    /\ minted < MaxUuids
    /\ LET r == start_new_session_result
       IN  /\ current' = r.cur
           /\ minted' = r.n
           /\ conversations' = r.convs
           /\ seqConv' = r.seq
           /\ last' = [op |-> "start_new_session", ret |-> r.ret]
    /\ UNCHANGED <<messages, seqMsg, foreign_keys, frontend, now, log>>

SetCurrentSession(sid) ==
    /\ current' = sid
    /\ last' = [op |-> "set_current_session", sid |-> sid]
    /\ UNCHANGED <<store, foreign_keys, frontend, now, minted, log>>

(* faulty variant: a save that starts a new session every time *)
session_for_save_AlwaysNew == start_new_session_result

(* the session a manager save writes to: the current one, or a new one *)
session_for_save ==
    IF current = None THEN start_new_session_result
    ELSE [ret |-> current, cur |-> current, n |-> minted,
          convs |-> conversations, seq |-> seqConv]

SaveUserMessage(content, image) ==
    /\ current = None => minted < MaxUuids
    /\ LET s == session_for_save
       IN  /\ CanSave(s.cur)
           /\ current' = s.cur
           /\ minted' = s.n
           /\ ApplySave("save_user_message", s.cur, "user", content, image)
    /\ UNCHANGED <<foreign_keys, frontend, now>>

SaveAssistantMessage(content) ==
    /\ current = None => minted < MaxUuids
    /\ LET s == session_for_save
       IN  /\ CanSave(s.cur)
           /\ current' = s.cur
           /\ minted' = s.n
           /\ ApplySave("save_assistant_message", s.cur, "assistant", content, NoImage)
    /\ UNCHANGED <<foreign_keys, frontend, now>>

(* Streamlit form of a loaded message *)
streamlit(m) == [role |-> m.role, content |-> m.content, image |-> m.image]

load_session_messages(session_id, limit) ==
    LET sid == IF session_id = None THEN current ELSE session_id
    IN  IF sid = None THEN {<<>>}
        ELSE {[i \in 1..Len(r) |-> streamlit(r[i])] : r \in load_messages(sid, limit)}

LoadSessionMessages(session_id, limit) ==
    /\ \E r \in load_session_messages(session_id, limit) :
          last' = [op |-> "load_session_messages", sid |-> session_id,
                   limit |-> limit, ret |-> r]
    /\ UNCHANGED <<store, foreign_keys, frontend, now, current, minted, log>>

(* faulty variant: the pointer kept after the current session was deleted *)
Manager_delete_conversation_current_Kept(sid, success) == current

Manager_delete_conversation_current(sid, success) ==
    IF success /\ current = sid THEN None ELSE current

ManagerDeleteConversation(sid) ==
    /\ LET r == delete_conversation_result(sid)
       IN  /\ conversations' = r.convs
           /\ messages' = r.msgs
           /\ log' = IF r.ret THEN [log EXCEPT ![sid] = <<>>] ELSE log
           /\ current' = Manager_delete_conversation_current(sid, r.ret)
           /\ last' = [op |-> "Manager.delete_conversation", sid |-> sid,
                       before |-> current, ret |-> r.ret]
    /\ UNCHANGED <<seqConv, seqMsg, foreign_keys, frontend, now, minted>>

Manager_clear_all_history_current(success) ==
    IF success THEN None ELSE current

ManagerClearAllHistory(fail) ==
    /\ LET r == clear_all_history_result(fail)
       IN  /\ conversations' = r.convs
           /\ messages' = r.msgs
           /\ log' = IF r.ret THEN [s \in AllIds |-> <<>>] ELSE log
           /\ current' = Manager_clear_all_history_current(r.ret)
           /\ last' = [op |-> "Manager.clear_all_history", before |-> current, ret |-> r.ret]
    /\ UNCHANGED <<seqConv, seqMsg, foreign_keys, frontend, now, minted>>

(* ---------------------------------------------- history manager: queries *)
ExportFormats == {"json", "text", "markdown", "xml"}
HostileQueries == { <<"'", ";", "D", "R", "O", "P">>, <<"%">>, <<"a", "b">> }

(* the labels of export_conversation, transliterated to ASCII *)
TextUser == "yuuzaa"
TextAssistant == "ashisutanto"
TextImage == "  (gazou ari)"
MarkdownUser == "(bust) yuuzaa"
MarkdownAssistant == "(robot) ashisutanto"
MarkdownImage == "*(camera) gazou ari*"

(* a stored timestamp as SQLite prints it *)
TimestampText(t) ==
    IF t = 0 THEN "00:00:00" ELSE IF t = 1 THEN "00:00:01"
    ELSE IF t = 2 THEN "00:00:02" ELSE "00:00:03"

(* "\n".join(lines) *)
RECURSIVE Join(_)
Join(lines) ==
    IF lines = <<>> THEN <<>>
    ELSE IF Len(lines) = 1 THEN Head(lines)
    ELSE Head(lines) \o <<"\n">> \o Join(Tail(lines))

(* json.dumps(messages, default=str): one object per message, an image    *)
(* printed through str()                                                   *)
RECURSIVE json_dumps(_)
json_dumps(ms) ==
    IF ms = <<>> THEN <<>>
    ELSE LET msg == Head(ms)
         IN  <<"{", "role", msg.role, "content">> \o msg.content
             \o <<"timestamp", TimestampText(msg.timestamp)>>
             \o (IF msg.image # NoImage THEN <<"image", "str", msg.image>> ELSE <<>>)
             \o <<"}">> \o json_dumps(Tail(ms))

RECURSIVE text_lines(_)
text_lines(ms) ==
    IF ms = <<>> THEN <<>>
    ELSE LET msg == Head(ms)
             role == IF msg.role = "user" THEN TextUser ELSE TextAssistant
         IN  << <<"[", TimestampText(msg.timestamp), "] ", role, ": ">> \o msg.content >>
             \o (IF msg.image # NoImage THEN << <<TextImage>> >> ELSE <<>>)
             \o text_lines(Tail(ms))

(* faulty variant: the heading written without the content line after it *)
RECURSIVE markdown_lines_NoContent(_)
markdown_lines_NoContent(ms) ==
    IF ms = <<>> THEN <<>>
    ELSE LET msg == Head(ms)
             role == IF msg.role = "user" THEN MarkdownUser ELSE MarkdownAssistant
         IN  << <<"## ", role, " (", TimestampText(msg.timestamp), ")">> >>
             \o (IF msg.image # NoImage THEN << <<MarkdownImage>> >> ELSE <<>>)
             \o << <<>> >>
             \o markdown_lines_NoContent(Tail(ms))

RECURSIVE markdown_lines(_)
markdown_lines(ms) ==
    IF ms = <<>> THEN <<>>
    ELSE LET msg == Head(ms)
             role == IF msg.role = "user" THEN MarkdownUser ELSE MarkdownAssistant
         IN  << <<"## ", role, " (", TimestampText(msg.timestamp), ")">>, msg.content >>
             \o (IF msg.image # NoImage THEN << <<MarkdownImage>> >> ELSE <<>>)
             \o << <<>> >>
             \o markdown_lines(Tail(ms))

(* faulty variant: an unknown format falls through to the text export *)
export_conversation_AnyFormat(session_id, format) ==
    {IF ms = <<>> THEN [absent |-> TRUE, text |-> <<>>]
     ELSE IF format = "json" THEN [absent |-> FALSE, text |-> <<"[">> \o json_dumps(ms) \o <<"]">>]
     ELSE IF format = "markdown" THEN [absent |-> FALSE, text |-> Join(markdown_lines(ms))]
     ELSE [absent |-> FALSE, text |-> Join(text_lines(ms))] :
        ms \in load_messages(session_id, NoLimit)}

(* export_conversation: absent when nothing loads or the format is not    *)
(* known, else the text in the format asked for; one result per order     *)
(* load_messages may return                                                *)
export_conversation(session_id, format) ==
    {IF ms = <<>> THEN [absent |-> TRUE, text |-> <<>>]
     ELSE IF format = "json" THEN [absent |-> FALSE, text |-> <<"[">> \o json_dumps(ms) \o <<"]">>]
     ELSE IF format = "text" THEN [absent |-> FALSE, text |-> Join(text_lines(ms))]
     ELSE IF format = "markdown" THEN [absent |-> FALSE, text |-> Join(markdown_lines(ms))]
     ELSE [absent |-> TRUE, text |-> <<>>] :
        ms \in load_messages(session_id, NoLimit)}

(* faulty variant: the query text pasted into the SQL statement, which    *)
(* sqlite3 refuses to run when a quote in it ends the string literal      *)
Manager_search_messages_Interpolated(query, limit) ==
    [ok |-> ~(query # <<>> /\ Head(query) = "'"), rets |-> search_messages(query, limit)]

(* Manager.search_messages hands the query to the store, which binds it   *)
(* as a parameter of the SELECT                                            *)
Manager_search_messages(query, limit) ==
    [ok |-> TRUE, rets |-> search_messages(query, limit)]

get_conversation_list(limit) == get_conversations(limit)

(* database_size_bytes and database_size_mb describe the file, not the    *)
(* rows, and are left out                                                  *)
get_statistics ==
    [conversation_count |-> get_database_info.conversation_count,
     message_count |-> get_database_info.message_count,
     image_message_count |-> get_database_info.image_message_count,
     current_session_id |-> current]

ManagerSearchMessages(query, limit) ==
    /\ LET r == Manager_search_messages(query, limit)
       IN  \E ret \in r.rets :
              last' = [op |-> "Manager.search_messages", query |-> query,
                       ok |-> r.ok, ret |-> ret]
    /\ UNCHANGED <<store, foreign_keys, frontend, now, current, minted, log>>

GetConversationList(limit) ==
    /\ \E r \in get_conversation_list(limit) :
          last' = [op |-> "get_conversation_list", limit |-> limit, ret |-> r]
    /\ UNCHANGED <<store, foreign_keys, frontend, now, current, minted, log>>

ExportConversation(session_id, format) ==
    /\ \E r \in export_conversation(session_id, format) :
          last' = [op |-> "export_conversation", sid |-> session_id, format |-> format,
                   absent |-> r.absent, ret |-> r.text]
    /\ UNCHANGED <<store, foreign_keys, frontend, now, current, minted, log>>

GetStatistics ==
    /\ last' = [op |-> "get_statistics", ret |-> get_statistics]
    /\ UNCHANGED <<store, foreign_keys, frontend, now, current, minted, log>>

(* ------------------------------------------- history manager: migration *)
(* the st.session_state.messages lists handed to migrate_session_state *)
MigrateInputs ==
    {<<>>} \cup {<<i>> : i \in ValidInputs} \cup {<<i, j>> : i \in ValidInputs, j \in ValidInputs}

(* the rows written by the loop of migrate_session_state into conversation *)
(* cid, the first with id n + 1; the loop ends at the first entry whose    *)
(* role the CHECK constraint rejects.  The loop runs within one second of  *)
(* the clock.                                                              *)
RECURSIVE migrate_rows(_, _, _)
migrate_rows(cid, entries, n) ==
    IF entries = <<>> \/ Head(entries)[1] \notin ValidRoles THEN {}
    ELSE {[message_row(cid, Head(entries)[1], Head(entries)[2], Head(entries)[3])
             EXCEPT !.id = n + 1]}
         \cup migrate_rows(cid, Tail(entries), n + 1)

migrate_session_state_result(entries) ==
    LET s == start_new_session_result
        cr == IF entries = <<>>
              THEN [ok |-> TRUE, ret |-> NoneId, convs |-> s.convs, seq |-> s.seq]
              ELSE create_conversation_result(s.ret, Title(Head(entries)[2]))
        rows == migrate_rows(cr.ret, entries, seqMsg)
    IN  [ok |-> cr.ok /\ Cardinality(rows) = Len(entries),
         ret |-> s.ret, cur |-> s.cur, n |-> s.n,
         convs |-> IF rows = {} THEN cr.convs ELSE bump_updated_at(cr.convs, cr.ret),
         msgs |-> messages \cup rows,
         seqC |-> cr.seq, seqM |-> seqMsg + Cardinality(rows)]

MigrateSessionState(entries) ==
    /\ minted < MaxUuids
    /\ seqMsg + Len(entries) <= MaxMessages
    /\ entries # <<>> => seqConv < MaxConversations
    /\ LET r == migrate_session_state_result(entries)
           given == [i \in 1..Len(entries) |->
                       [role |-> entries[i][1], content |-> entries[i][2],
                        image |-> entries[i][3]]]
       IN  /\ current' = r.cur
           /\ minted' = r.n
           /\ conversations' = r.convs
           /\ messages' = r.msgs
           /\ seqConv' = r.seqC
           /\ seqMsg' = r.seqM
           /\ log' = [log EXCEPT ![r.ret] = Take(given, Cardinality(r.msgs \ messages))]
           /\ last' = [op |-> "migrate_session_state", entries |-> given,
                       ok |-> r.ok, ret |-> r.ret]
    /\ UNCHANGED <<foreign_keys, frontend, now>>

(* ------------------------------------------------------ input sanitizer *)
(* src/src/utils/file_processing.py, sanitize_user_input.  Here a text is *)
(* a string.                                                               *)
UpperAlphabet == "ABCDEFGHIJKLMNOPQRSTUVWXYZ"
LowerAlphabet == "abcdefghijklmnopqrstuvwxyz"
CharAt(text, i) == SubSeq(text, i, i)

Lower(ch) ==
    IF \E i \in 1..26 : CharAt(UpperAlphabet, i) = ch
    THEN CharAt(LowerAlphabet, CHOOSE i \in 1..26 : CharAt(UpperAlphabet, i) = ch)
    ELSE ch

RECURSIVE LowerText(_)
LowerText(text) ==
    IF text = "" THEN "" ELSE Lower(Head(text)) \o LowerText(Tail(text))

(* re.sub(pattern, '', text, flags=re.IGNORECASE) for a literal pattern:  *)
(* one pass from the left over the text, each match removed, what is left *)
(* is not scanned again                                                    *)
RECURSIVE re_sub(_, _)
re_sub(pattern, text) ==
    IF text = "" THEN ""
    ELSE IF Len(text) >= Len(pattern)
            /\ LowerText(SubSeq(text, 1, Len(pattern))) = pattern
         THEN re_sub(pattern, SubSeq(text, Len(pattern) + 1, Len(text)))
         ELSE Head(text) \o re_sub(pattern, Tail(text))

allowed_tags == {"b", "i", "u", "em", "strong", "code", "pre", "br", "p"}

(* the position of the first > of the text, 0 when it has none *)
TagEnd(text) ==
    IF \E i \in 1..Len(text) : CharAt(text, i) = ">"
    THEN CHOOSE i \in 1..Len(text) :
            CharAt(text, i) = ">" /\ \A j \in 1..(i - 1) : CharAt(text, j) # ">"
    ELSE 0

IsLetter(ch) == \E i \in 1..26 : CharAt(LowerAlphabet, i) = Lower(ch)

(* the tag name at the start of what stands between < and >: the letters *)
(* and other characters up to the first blank or slash, in lower case     *)
RECURSIVE TagName(_)
TagName(inner) ==
    IF inner = "" \/ Head(inner) = " " \/ Head(inner) = "/" THEN ""
    ELSE Lower(Head(inner)) \o TagName(Tail(inner))

(* bleach.clean(text, tags=allowed_tags, attributes={}, strip=True): a    *)
(* tag on the allow-list is kept without its attributes, any other tag is *)
(* removed and its inner text kept, and a <, > or & that is not part of a *)
(* tag is written as an entity                                             *)
RECURSIVE bleach_clean(_)
bleach_clean(text) ==
    IF text = "" THEN ""
    ELSE IF Head(text) = "<"
    THEN LET close == TagEnd(text)
             inner == SubSeq(text, 2, close - 1)
             closing == inner # "" /\ Head(inner) = "/"
             body == IF closing THEN Tail(inner) ELSE inner
         IN  IF close = 0 \/ body = "" \/ ~IsLetter(Head(body))
             THEN "&lt;" \o bleach_clean(Tail(text))
             ELSE (IF TagName(body) \in allowed_tags
                   THEN (IF closing THEN "</" ELSE "<") \o TagName(body) \o ">"
                   ELSE "")
                  \o bleach_clean(SubSeq(text, close + 1, Len(text)))
    ELSE IF Head(text) = ">" THEN "&gt;" \o bleach_clean(Tail(text))
    ELSE IF Head(text) = "&" THEN "&amp;" \o bleach_clean(Tail(text))
    ELSE Head(text) \o bleach_clean(Tail(text))

(* faulty variant: an escape of the quotes and the ampersand only *)
RECURSIVE html_escape_QuotesOnly(_)
html_escape_QuotesOnly(text) ==
    IF text = "" THEN ""
    ELSE (IF Head(text) = "&" THEN "&amp;"
          ELSE IF Head(text) = "\"" THEN "&quot;"
          ELSE IF Head(text) = "'" THEN "&#x27;"
          ELSE Head(text)) \o html_escape_QuotesOnly(Tail(text))

(* html.escape(text), quote=True *)
RECURSIVE html_escape(_)
html_escape(text) ==
    IF text = "" THEN ""
    ELSE (IF Head(text) = "&" THEN "&amp;"
          ELSE IF Head(text) = "<" THEN "&lt;"
          ELSE IF Head(text) = ">" THEN "&gt;"
          ELSE IF Head(text) = "\"" THEN "&quot;"
          ELSE IF Head(text) = "'" THEN "&#x27;"
          ELSE Head(text)) \o html_escape(Tail(text))

(* the call inside the try block that raises, if any *)
SanitizeFailPoints == {"ok", "re_javascript", "re_data", "re_vbscript", "bleach", "escape"}

(* sanitize_user_input: the outcomes of a call in which the named call of *)
(* the try block raises.  The except branch escapes the variable content, *)
(* which the re.sub calls done so far have already reassigned; when it    *)
(* was html.escape that raised, the html.escape of the except branch may  *)
(* raise again, and that exception leaves the function.                   *)
sanitize_user_input(content, fail) ==
    IF content = None \/ content = ""
    THEN {[raised |-> FALSE, ret |-> content]}
    ELSE LET c1 == re_sub("javascript:", content)
             c2 == re_sub("data:", c1)
             c3 == re_sub("vbscript:", c2)
         IN  IF fail = "ok"
             THEN {[raised |-> FALSE, ret |-> html_escape(bleach_clean(c3))]}
             ELSE IF fail = "re_javascript"
             THEN {[raised |-> FALSE, ret |-> html_escape(content)]}
             ELSE IF fail = "re_data"
             THEN {[raised |-> FALSE, ret |-> html_escape(c1)]}
             ELSE IF fail = "re_vbscript"
             THEN {[raised |-> FALSE, ret |-> html_escape(c2)]}
             ELSE IF fail = "bleach"
             THEN {[raised |-> FALSE, ret |-> html_escape(c3)]}
             ELSE {[raised |-> FALSE, ret |-> html_escape(c3)],
                   [raised |-> TRUE, ret |-> None]}

(* the pieces the input texts are put together from *)
Fragments ==
    {"java", "script:", "javascript:", "JavaScript:", "data:", "vbscript:",
     "<x>", "<b>", "<", "&"}

RECURSIVE Concat(_, _)
Concat(f, n) == IF n = 0 THEN "" ELSE Concat(f, n - 1) \o f[n]

SanitizeInputs ==
    {None} \cup {Concat(f, n) : f \in [1..MaxFragments -> Fragments], n \in 0..MaxFragments}

(* a caller holding an input text; the sanitizer reads no other state *)
InitSanitize ==
    /\ conversations = {}
    /\ messages = {}
    /\ seqConv = 0
    /\ seqMsg = 0
    /\ foreign_keys = FALSE
    /\ now = 0
    /\ current = None
    /\ minted = 0
    /\ log = [s \in AllIds |-> <<>>]
    /\ last \in {[op |-> "input", content |-> c] : c \in SanitizeInputs}
    /\ InitFrontend

SanitizeUserInput(fail) ==
    /\ last.op = "input"
    /\ \E r \in sanitize_user_input(last.content, fail) :
          last' = [op |-> "sanitize_user_input", content |-> last.content, fail |-> fail,
                   raised |-> r.raised, ret |-> r.ret]
    /\ UNCHANGED <<store, foreign_keys, frontend, now, current, minted, log>>

(* the record store, saving, loading and deleting accepted messages *)
Next ==
    \/ Tick
    \/ \E sid \in DirectIds, i \in ValidInputs : SaveMessage(sid, i[1], i[2], i[3])
    \/ \E sid \in DirectIds : DeleteConversation(sid)
    \/ \E fail \in FailPoints : ClearAllHistory(fail)
    \/ \E sid \in DirectIds, limit \in Limits : LoadMessages(sid, limit)

Spec == Init /\ [][Next]_vars

(* the record store under explicit creation and rejected roles *)
NextCreate ==
    \/ Tick
    \/ \E sid \in DirectIds : CreateConversation(sid, <<"t">>)
    \/ \E sid \in DirectIds, i \in MessageInputs : SaveMessage(sid, i[1], i[2], i[3])
    \/ \E sid \in DirectIds : DeleteConversation(sid)

SpecCreate == Init /\ [][NextCreate]_vars

(* the record store under its statistics and listing *)
NextInfo ==
    \/ Tick
    \/ \E sid \in DirectIds, i \in MessageInputs : SaveMessage(sid, i[1], i[2], i[3])
    \/ \E sid \in DirectIds : DeleteConversation(sid)
    \/ \E fail \in FailPoints : ClearAllHistory(fail)
    \/ GetConversations(DefaultListLimit)
    \/ GetDatabaseInfo

SpecInfo == Init /\ [][NextInfo]_vars

(* the record store under search *)
NextSearch ==
    \/ Tick
    \/ \E sid \in DirectIds, i \in MessageInputs : SaveMessage(sid, i[1], i[2], i[3])
    \/ \E sid \in DirectIds : DeleteConversation(sid)
    \/ \E query \in Queries, limit \in SearchLimits : SearchMessages(query, limit)

SpecSearch == Init /\ [][NextSearch]_vars

(* the history manager *)
NextMgr ==
    \/ Tick
    \/ StartNewSession
    \/ \E sid \in KnownIds : SetCurrentSession(sid)
    \/ \E i \in UserInputs : SaveUserMessage(i[2], i[3])
    \/ \E i \in AssistantInputs : SaveAssistantMessage(i[2])
    \/ \E sid \in KnownIds \cup {None}, limit \in {NoLimit, 1} : LoadSessionMessages(sid, limit)
    \/ \E sid \in KnownIds : ManagerDeleteConversation(sid)
    \/ \E fail \in FailPoints : ManagerClearAllHistory(fail)

SpecMgr == Init /\ [][NextMgr]_vars

(* the record store under saves that fail part-way *)
NextAtomic ==
    \/ Tick
    \/ \E sid \in DirectIds, i \in ValidInputs, fail \in SaveFailPoints :
          SaveMessageInterrupted(sid, i[1], i[2], i[3], fail)
    \/ \E sid \in DirectIds : DeleteConversation(sid)

SpecAtomic == Init /\ [][NextAtomic]_vars

(* the export of stored sessions *)
NextExport ==
    \/ Tick
    \/ \E sid \in DirectIds, i \in MessageInputs : SaveMessage(sid, i[1], i[2], i[3])
    \/ \E sid \in DirectIds : DeleteConversation(sid)
    \/ \E sid \in DirectIds, format \in ExportFormats : ExportConversation(sid, format)

SpecExport == Init /\ [][NextExport]_vars

(* the history manager under migration of a transient message list *)
NextMigrate ==
    \/ Tick
    \/ \E sid \in DirectIds, i \in ValidInputs : SaveMessage(sid, i[1], i[2], i[3])
    \/ \E entries \in MigrateInputs : MigrateSessionState(entries)
    \/ \E sid \in KnownIds \cup {None} : LoadSessionMessages(sid, NoLimit)
    \/ \E sid \in KnownIds : ManagerDeleteConversation(sid)

SpecMigrate == Init /\ [][NextMigrate]_vars

(* the input sanitizer applied to the input texts *)
NextSanitize == \E fail \in SanitizeFailPoints : SanitizeUserInput(fail)

SpecSanitize == InitSanitize /\ [][NextSanitize]_vars

(* the history manager under its queries *)
NextQuery ==
    \/ \E sid \in KnownIds : SetCurrentSession(sid)
    \/ \E i \in UserInputs : SaveUserMessage(i[2], i[3])
    \/ \E i \in AssistantInputs : SaveAssistantMessage(i[2])
    \/ \E sid \in KnownIds : ManagerDeleteConversation(sid)
    \/ \E query \in HostileQueries : ManagerSearchMessages(query, DefaultSearchLimit)
    \/ \E sid \in KnownIds \cup {None} : LoadSessionMessages(sid, NoLimit)
    \/ GetConversationList(DefaultListLimit)
    \/ \E sid \in KnownIds, format \in ExportFormats : ExportConversation(sid, format)
    \/ GetStatistics

SpecQuery == Init /\ [][NextQuery]_vars

(* ------------------------------------------------------------- properties *)
Strip(r) == [i \in 1..Len(r) |-> [role |-> r[i].role, content |-> r[i].content,
                                  image |-> r[i].image]]
Count(x, q) == Cardinality({i \in 1..Len(q) : q[i] = x})
SameBag(p, q) ==
    /\ Len(p) = Len(q)
    /\ \A i \in 1..Len(p) : Count(p[i], p) = Count(p[i], q)
SessionRows(sid) == {m \in messages : m.conversation_id = get_conversation_id(sid)}
Contains(str, q) ==
    \E i \in 0..(Len(str) - Len(q)) : SubSeq(str, i + 1, i + Len(q)) = q
RECURSIVE SumCounts(_)
SumCounts(S) ==
    IF S = {} THEN 0
    ELSE LET c == CHOOSE c \in S : TRUE
         IN  listed(c).message_count + SumCounts(S \ {c})

(* C1: load_messages(S) returns exactly the messages saved to S, each with *)
(* its saved role, content and image (none when none was attached), and    *)
(* never a message saved to another session.                               *)
C1_LoadReturnsSaved ==
    \A sid \in AllIds : \A r \in load_messages(sid, NoLimit) :
        SameBag(Strip(r), log[sid])

C1_Witness ==
    /\ last.op = "load_messages"
    /\ last.limit = NoLimit
    /\ Len(last.ret) = 1
    /\ \E t \in DirectIds \ {last.sid} : log[t] # <<>>

(* C2: load_messages returns the messages of a session in the order they   *)
(* were inserted, also when timestamps collide, and with limit N the first *)
(* N of them.                                                              *)
C2_InsertionOrder ==
    \A sid \in AllIds : \A limit \in Limits \ {0} : \A r \in load_messages(sid, limit) :
        Strip(r) = IF limit = NoLimit THEN log[sid] ELSE Take(log[sid], limit)

(* C3: delete_conversation(S) returns true iff S had a conversation row;   *)
(* afterwards S has no row and no loadable message, every other session    *)
(* loads what it loaded before, and deleting an absent S changes nothing.  *)
C3_DeleteExactly ==
    [][\A s \in AllIds :
         (last'.op = "delete_conversation" /\ last'.sid = s) =>
            /\ last'.ret = (get_conversation_id(s) # NoneId)
            /\ load_messages(s, NoLimit)' = {<<>>}
            /\ get_conversation_id(s)' = NoneId
            /\ \A t \in AllIds \ {s} :
                  load_messages(t, NoLimit)' = load_messages(t, NoLimit)
            /\ (get_conversation_id(s) = NoneId =>
                  UNCHANGED <<store, current, log>>)]_vars

C3_Witness ==
    /\ last.op = "delete_conversation"
    /\ last.ret
    /\ \E t \in DirectIds \ {last.sid} : load_messages(t, NoLimit) # {<<>>}

(* C4: every stored message belongs to an existing conversation, so the    *)
(* message_count of get_database_info is the sum of the per-conversation   *)
(* message_count values.                                                   *)
C4_NoOrphans ==
    /\ \A m \in messages : \E c \in conversations : c.id = m.conversation_id
    /\ get_database_info.message_count = SumCounts(conversations)

(* C5: at most one conversation row exists per session_id, and             *)
(* create_conversation on a session_id that has a row raises and leaves    *)
(* the store unchanged.                                                    *)
C5_UniqueSession ==
    /\ [](\A c1, c2 \in conversations : c1.session_id = c2.session_id => c1 = c2)
    /\ [][\A s \in AllIds :
            (last'.op = "create_conversation" /\ last'.sid = s
               /\ get_conversation_id(s) # NoneId) =>
                 /\ ~last'.ok
                 /\ UNCHANGED store]_vars

C5_Witness ==
    /\ last.op = "create_conversation"
    /\ ~last.ok
    /\ get_conversation_id(last.sid) # NoneId

(* C6: start_new_session returns an id that no conversation in the store   *)
(* carries, makes it the current session and writes nothing to the store.  *)
C6_StartNewSession ==
    [][last'.op = "start_new_session" =>
         /\ \A c \in conversations : c.session_id # last'.ret
         /\ current' = last'.ret
         /\ UNCHANGED store]_vars

C6_Witness ==
    /\ last.op = "start_new_session"
    /\ current = last.ret
    /\ conversations # {}

(* C7: save_user_message and save_assistant_message with no current        *)
(* session start one, and the message is then the only one loadable from   *)
(* it; with a current session they append to it and keep the pointer.      *)
C7_SaveThroughManager ==
    [][\A s \in AllIds :
         (last'.op \in {"save_user_message", "save_assistant_message"} /\ current' = s) =>
            /\ last'.sid = s
            /\ last'.role = (IF last'.op = "save_user_message" THEN "user" ELSE "assistant")
            /\ current = None =>
                  load_messages(s, NoLimit)' =
                     {<<[role |-> last'.role, content |-> last'.content,
                         timestamp |-> now, image |-> last'.image]>>}
            /\ current # None =>
                  /\ current = s
                  /\ \E m \in messages' \ messages :
                        /\ m.role = last'.role
                        /\ m.content = last'.content
                        /\ SessionRows(s)' = SessionRows(s) \cup {m}]_vars

C7_Witness ==
    /\ last.op = "save_assistant_message"
    /\ current = last.sid
    /\ Len(log[current]) = 2

(* C8 as stated: Manager.delete_conversation(s) with s the current session *)
(* id, whether or not s has a stored message, or a successful              *)
(* Manager.clear_all_history, leaves no current session.                   *)
C8_PointerAlwaysCleared ==
    [][\/ (last'.op = "Manager.delete_conversation" /\ last'.sid = current)
       \/ (last'.op = "Manager.clear_all_history" /\ last'.ret)
       => current' = None]_vars

(* C8 amended: Manager.delete_conversation(s) with s the current session   *)
(* id and a conversation row stored for s, or a successful                 *)
(* Manager.clear_all_history, leaves no current session.                   *)
C8_PointerClearedOnDelete ==
    [][\/ (last'.op = "Manager.delete_conversation" /\ last'.sid = current
             /\ get_conversation_id(current) # NoneId)
       \/ (last'.op = "Manager.clear_all_history" /\ last'.ret)
       => current' = None]_vars

C8_Witness ==
    /\ last.op = "Manager.delete_conversation"
    /\ last.before = last.sid
    /\ last.ret
    /\ current = None

(* C9: clear_all_history removes every conversation and message and        *)
(* returns true; when the storage fails it returns false, and the store    *)
(* and the manager's current session are as before.                        *)
C9_ClearAll ==
    [][last'.op = "Manager.clear_all_history" =>
         IF last'.ret
         THEN /\ conversations' = {}
              /\ messages' = {}
              /\ get_conversations(DefaultListLimit)' = {<<>>}
              /\ \A s \in AllIds : load_messages(s, NoLimit)' = {<<>>}
         ELSE UNCHANGED <<conversations, messages, current>>]_vars

C9_Witness ==
    /\ last.op = "Manager.clear_all_history"
    /\ ~last.ret
    /\ messages # {}
    /\ current # None

(* C10: search_messages(q) returns a message of a stored conversation if   *)
(* and only if its content contains q as a literal substring; % and _ in   *)
(* q match only themselves.                                                *)
C10_LiteralSearch ==
    \A q \in Queries : \A r \in search_messages(q, DefaultSearchLimit) :
        {r[i] : i \in 1..Len(r)} =
            {found(m) : m \in {x \in messages :
                                 /\ \E c \in conversations : c.id = x.conversation_id
                                 /\ Contains(x.content, q)}}

QueryOps ==
    {"Manager.search_messages", "load_session_messages", "get_conversation_list",
     "export_conversation", "get_statistics"}

(* C11: the queries of the manager (search_messages with any query text,   *)
(* SQL metacharacters included, load_session_messages,                     *)
(* get_conversation_list, export_conversation, get_statistics) raise       *)
(* nothing and leave every conversation, every message and the current     *)
(* session pointer as they were.                                           *)
C11_QueriesChangeNothing ==
    [][/\ last'.op = "Manager.search_messages" => last'.ok
       /\ last'.op \in QueryOps => UNCHANGED <<conversations, messages, current>>]_vars

C11_Witness ==
    /\ last.op = "Manager.search_messages"
    /\ last.query = <<"'", ";", "D", "R", "O", "P">>
    /\ messages # {}
    /\ current # None

(* C12: get_conversations returns the conversations by updated_at          *)
(* descending, and the conversation that most recently received a message  *)
(* is the first of the list.                                               *)
C12_MostRecentFirst ==
    \A r \in get_conversations(DefaultListLimit) :
        /\ \A i, j \in 1..Len(r) : i < j => r[i].updated_at >= r[j].updated_at
        /\ LET live == {m \in messages : \E c \in conversations : c.id = m.conversation_id}
               newest == CHOOSE m \in live : \A x \in live : x.id <= m.id
           IN  live # {} =>
                 r[1].session_id =
                    (CHOOSE c \in conversations : c.id = newest.conversation_id).session_id

(* C13: the INSERT of a message and the UPDATE of its conversation's       *)
(* updated_at are one atomic step: in every reachable state, states        *)
(* reached through a save that failed between its sub-steps included, no   *)
(* conversation's updated_at is older than the timestamp of one of its     *)
(* messages, and a save that stored no message moved no updated_at.        *)
C13_AtomicSave ==
    /\ [](\A c \in conversations : \A m \in messages :
             m.conversation_id = c.id => c.updated_at >= m.timestamp)
    /\ [][(last'.op = "save_message" /\ messages' = messages) =>
             \A c \in conversations : c \in conversations']_vars

C13_Witness ==
    /\ last.op = "save_message"
    /\ last.fail = "update"
    /\ ~last.ok
    /\ \E c \in conversations :
          /\ c.session_id = last.sid
          /\ c.updated_at < now
          /\ \E m \in messages : m.conversation_id = c.id

(* C14: the title of a conversation is derived from the content of its     *)
(* first user message (the content itself up to 50 characters, else its    *)
(* first 50 characters and an ellipsis), also when the first message       *)
(* saved to the session has role assistant.                                *)
C14_TitleFromFirstUser ==
    \A c \in conversations :
        LET users == {m \in messages : m.conversation_id = c.id /\ m.role = "user"}
            first == CHOOSE m \in users : \A x \in users : m.id <= x.id
        IN  users # {} => c.title = Title(first.content)

(* C15: export_conversation(S, format) returns absent when S has no        *)
(* message (a session without a conversation row included) and when the    *)
(* format is none of json, text, markdown; for a session with messages     *)
(* and one of these formats it returns a text.                             *)
C15_ExportAbsent ==
    last.op = "export_conversation" =>
        /\ last.absent = (SessionRows(last.sid) = {}
                            \/ last.format \notin {"json", "text", "markdown"})
        /\ ~last.absent => last.ret # <<>>

C15_Witness ==
    /\ last.op = "export_conversation"
    /\ last.format = "xml"
    /\ last.absent
    /\ SessionRows(last.sid) # {}
    /\ \E sid \in DirectIds : get_conversation_id(sid) # NoneId /\ SessionRows(sid) = {}

(* the lines of a text: the runs between its line breaks *)
RECURSIVE SplitLines(_)
SplitLines(text) ==
    IF \A i \in 1..Len(text) : text[i] # "\n" THEN <<text>>
    ELSE LET k == CHOOSE i \in 1..Len(text) :
                      text[i] = "\n" /\ \A j \in 1..(i - 1) : text[j] # "\n"
         IN  <<SubSeq(text, 1, k - 1)>> \o SplitLines(SubSeq(text, k + 1, Len(text)))

(* the positions, in increasing order, of the lines that start with tok *)
StartsWith(line, tok) == line # <<>> /\ line[1] = tok
Nth(S, k) == CHOOSE i \in S : Cardinality({j \in S : j < i}) = k - 1
SectionStarts(ls, tok) == {i \in 1..Len(ls) : StartsWith(ls[i], tok)}

C17_Migrate ==
    [][\A s \in AllIds :
         (last'.op = "migrate_session_state" /\ last'.ret = s) =>
            /\ last'.ok
            /\ get_conversation_id(s) = NoneId
            /\ current' = s
            /\ \A r \in load_session_messages(None, NoLimit)' :
                  /\ Len(r) = Len(last'.entries)
                  /\ \A i \in 1..Len(r) :
                        /\ r[i].role = last'.entries[i].role
                        /\ r[i].content = last'.entries[i].content
            /\ \A t \in AllIds \ {s} : load_messages(t, NoLimit)' = load_messages(t, NoLimit)
            /\ (last'.entries = <<>> => UNCHANGED store)]_vars

(* whether the text holds the scheme somewhere, in any letter casing *)
HoldsScheme(text, scheme) ==
    \E i \in 1..(Len(text) - Len(scheme) + 1) :
        LowerText(SubSeq(text, i, i + Len(scheme) - 1)) = scheme
Schemes == {"javascript:", "data:", "vbscript:"}

(* C18: for every input text the output of sanitize_user_input holds none  *)
(* of javascript:, data:, vbscript: in any letter casing, also when a      *)
(* scheme is nested inside another occurrence or split by a tag that the   *)
(* allow-list pass strips.                                                 *)
C18_NoScheme ==
    (last.op = "sanitize_user_input" /\ last.fail = "ok" /\ last.content # None) =>
        \A scheme \in Schemes : ~HoldsScheme(last.ret, scheme)

C20_FallbackEscapesOriginal ==
    (last.op = "sanitize_user_input" /\ last.fail # "ok"
       /\ last.content # None /\ last.content # "") =>
        /\ ~last.raised
        /\ last.ret = html_escape(last.content)
(* -------------------------------------------------- file-type validator *)
(* An uploaded blob is a stream: a name, a content and a position.  The  *)
(* content is a sequence of chunks of 1024 bytes, the first chunk         *)
(* carrying the byte signature libmagic looks at.                         *)
MaxChunks == 3
ReadChunks == 2048 \div 1024

Signatures == {"89PNG", "FFD8", "%PDF", "II*", "MZ", "text"}
Contents ==
    {<<>>} \cup {[i \in 1..n |-> IF i = 1 THEN sig ELSE "data"] :
                   sig \in Signatures, n \in 1..MaxChunks}
FileNames == {None, "", "x.png", "X.JPG", "x.pdf", "a.png.exe", "x.tiff", "pdf"}
Blobs ==
    UNION {{[supplied |-> TRUE, name |-> None, content |-> c, pos |-> p] : p \in {q \in 0..1 : q <= Len(c)}} :
             c \in Contents}
ValidateFailPoints == {"ok", "seek", "read", "seek_back", "magic"}

(* magic.from_buffer(buffer, mime=True) *)
magic_from_buffer(buffer) ==
    IF buffer = <<>> THEN "application/x-empty"
    ELSE CASE Head(buffer) = "89PNG" -> "image/png"
           [] Head(buffer) = "FFD8" -> "image/jpeg"
           [] Head(buffer) = "%PDF" -> "application/pdf"
           [] Head(buffer) = "II*" -> "image/tiff"
           [] Head(buffer) = "MZ" -> "application/x-dosexec"
           [] OTHER -> "text/plain"

allowed_mime_types ==
    {"image/png", "image/jpeg", "image/gif", "image/bmp", "image/webp", "application/pdf"}
allowed_extensions == {"jpg", "jpeg", "png", "gif", "bmp", "webp", "pdf"}
image_extensions == {"jpg", "jpeg", "png", "gif", "bmp", "webp"}

(* file_name.lower().split('.')[-1]: what follows the last dot, the whole *)
(* name when it has no dot                                                *)
RECURSIVE LastPart(_)
LastPart(text) ==
    IF \E i \in 1..Len(text) : CharAt(text, i) = "."
    THEN LET dot == CHOOSE i \in 1..Len(text) :
                       CharAt(text, i) = "." /\ \A j \in 1..(i - 1) : CharAt(text, j) # "."
         IN  LastPart(SubSeq(text, dot + 1, Len(text)))
    ELSE text
Extension(file_name) == LastPart(LowerText(file_name))

(* faulty variant: the content gate accepts whatever it is given *)
validate_file_content_AnyContent(file, fail) ==
    {[ret |-> TRUE, pos |-> 0, reads |-> 1]}

(* validate_file_content: seek(0), read(2048), seek(0), detect; every     *)
(* exception is caught and answered with False.  The outcomes are the     *)
(* result, the stream position left behind and the number of reads.  A    *)
(* read that raises may have consumed any part of what it was asked for,  *)
(* and the seek(0) that follows it in the try block is then skipped.      *)
validate_file_content(file, fail) ==
    LET file_content == Take(file.content, ReadChunks)
    IN  CASE fail = "seek" ->
               {[ret |-> FALSE, pos |-> file.pos, reads |-> 0]}
          [] fail = "read" ->
               {[ret |-> FALSE, pos |-> q, reads |-> 1] : q \in 0..Len(file_content)}
          [] fail = "seek_back" ->
               {[ret |-> FALSE, pos |-> Len(file_content), reads |-> 1]}
          [] fail = "magic" ->
               {[ret |-> FALSE, pos |-> 0, reads |-> 1]}
          [] OTHER ->
               {[ret |-> magic_from_buffer(file_content) \in allowed_mime_types,
                 pos |-> 0, reads |-> 1]}

by_extension(extension) ==
    IF extension \in image_extensions THEN "image"
    ELSE IF extension = "pdf" THEN "pdf" ELSE "unknown"

(* get_file_type(file_name, uploaded_file=None): file is NoFile or a     *)
(* blob.  The outcomes carry the blob's position after the call.          *)
get_file_type(file_name, file, fail) ==
    LET untouched == {[ret |-> "unknown", pos |-> file.pos, reads |-> 0]}
    IN  IF file_name = None \/ file_name = "" THEN untouched
        ELSE IF Extension(file_name) \notin allowed_extensions THEN untouched
        ELSE IF ~file.supplied
             THEN {[ret |-> by_extension(Extension(file_name)), pos |-> file.pos, reads |-> 0]}
        ELSE {[ret |-> IF v.ret THEN by_extension(Extension(file_name)) ELSE "unknown",
               pos |-> v.pos, reads |-> v.reads] :
                 v \in validate_file_content(file, fail)}

(* a caller holding a file name and, possibly, a blob *)
InitClassify ==
    /\ conversations = {}
    /\ messages = {}
    /\ seqConv = 0
    /\ seqMsg = 0
    /\ foreign_keys = FALSE
    /\ now = 0
    /\ current = None
    /\ minted = 0
    /\ log = [s \in AllIds |-> <<>>]
    /\ InitFrontend
    /\ last \in {[op |-> "file", file_name |-> f, supplied |-> b.supplied,
                  content |-> b.content, pos |-> b.pos] :
                   f \in FileNames, b \in Blobs \cup {NoFile}}

(* get_file_type called on the file the caller holds, a first and a       *)
(* second time; the blob keeps the position the previous call left        *)
GetFileType(fail) ==
    /\ last.op = "file" \/ (last.op = "get_file_type" /\ last.nth = 1)
    /\ \E r \in get_file_type(last.file_name,
                              [supplied |-> last.supplied, name |-> None,
                               content |-> last.content, pos |-> last.pos], fail) :
          last' = [op |-> "get_file_type", file_name |-> last.file_name,
                   supplied |-> last.supplied, content |-> last.content,
                   nth |-> IF last.op = "file" THEN 1 ELSE 2,
                   fail |-> fail, before |-> last.pos, pos |-> r.pos,
                   reads |-> r.reads, ret |-> r.ret,
                   previous |-> IF last.op = "file" THEN None ELSE last.ret,
                   previous_fail |-> IF last.op = "file" THEN None ELSE last.fail]
    /\ UNCHANGED <<store, foreign_keys, frontend, now, current, minted, log>>

NextClassify == \E fail \in ValidateFailPoints : GetFileType(fail)

SpecClassify == InitClassify /\ [][NextClassify]_vars

C22_ContentOverridesExtension ==
    (last.op = "get_file_type" /\ last.supplied) =>
        LET mime == magic_from_buffer(Take(last.content, ReadChunks))
        IN  /\ last.ret = "image" =>
                 mime \in {"image/png", "image/jpeg", "image/gif", "image/bmp", "image/webp"}
            /\ last.ret = "pdf" => mime = "application/pdf"

(* C23: get_file_type leaves the blob's position at the start whenever it *)
(* got past the extension gate, does not read the blob when the gate      *)
(* rejects, and answers a second call on the same blob as the first.      *)
C23_PositionRestored ==
    (last.op = "get_file_type" /\ last.supplied) =>
        /\ last.reads > 0 => last.pos = 0
        /\ (last.file_name = None \/ last.file_name = ""
              \/ Extension(last.file_name) \notin allowed_extensions) =>
             (last.reads = 0 /\ last.pos = last.before)
        /\ (last.reads = 0 /\ Extension(last.file_name) \in allowed_extensions) =>
             last.pos = 0
        /\ (last.nth = 2 /\ last.fail = "ok" /\ last.previous_fail = "ok") =>
             last.ret = last.previous
(* ------------------------------------------------ roles and failed saves *)
(* what a caller may hand to save_message: the triples above and a user   *)
(* message whose image cannot be encoded                                  *)
AnyInputs == MessageInputs \cup { <<"user", <<"a", "b", "c">>, "BAD">> }
(* st.session_state.messages with entries of any role *)
MigrateInputsAnyRole ==
    {<<i>> : i \in MessageInputs} \cup {<<i, j>> : i \in MessageInputs, j \in MessageInputs}

NextRoles ==
    \/ Tick
    \/ \E sid \in DirectIds, i \in AnyInputs : SaveMessage(sid, i[1], i[2], i[3])
    \/ \E entries \in MigrateInputsAnyRole : MigrateSessionState(entries)
    \/ \E sid \in DirectIds : DeleteConversation(sid)

SpecRoles == Init /\ [][NextRoles]_vars

(* C26: every stored message has role user or assistant; a save_message   *)
(* with another role fails and stores nothing, and migrate_session_state  *)
(* fails at an entry with another role and stores only the entries before *)
(* it.                                                                    *)
C26_RolesChecked ==
    /\ [](\A m \in messages : m.role \in ValidRoles)
    /\ [][/\ (last'.op = "save_message" /\ last'.role \notin ValidRoles) =>
                (~last'.ok /\ messages' = messages)
          /\ (last'.op = "migrate_session_state"
                /\ \E i \in 1..Len(last'.entries) : last'.entries[i].role \notin ValidRoles) =>
                LET first == CHOOSE i \in 1..Len(last'.entries) :
                                /\ last'.entries[i].role \notin ValidRoles
                                /\ \A j \in 1..(i - 1) : last'.entries[j].role \in ValidRoles
                IN  /\ ~last'.ok
                    /\ Cardinality(messages' \ messages) = first - 1]_vars

C26_Witness ==
    /\ last.op = "migrate_session_state" /\ ~last.ok
    /\ Len(last.entries) = 2 /\ last.entries[1].role = "user"
    /\ last.entries[2].role = "system"
    /\ \E m \in messages : m.role = "user"

(* C27: a save_message call that fails leaves the store as it was before  *)
(* the call.                                                              *)
C27_FailedSaveChangesNothing ==
    [][(last'.op = "save_message" /\ ~last'.ok) => UNCHANGED store]_vars
(* ------------------------------------------- deleted messages stay gone *)
NextReappear ==
    \/ Tick
    \/ \E sid \in DirectIds, i \in ValidInputs : SaveMessage(sid, i[1], i[2], i[3])
    \/ \E sid \in DirectIds : DeleteConversation(sid)
    \/ \E fail \in FailPoints : ClearAllHistory(fail)
    \/ \E sid \in DirectIds : LoadMessages(sid, NoLimit)
    \/ SearchMessages(<<"%">>, DefaultSearchLimit)

SpecReappear == Init /\ [][NextReappear]_vars

(* the rows of a search result that belong to session sid *)
FoundIn(r, sid) == {i \in 1..Len(r) : r[i].session_id = sid}

(* C28: messages of a deleted conversation never reappear: whatever is    *)
(* saved after delete_conversation or clear_all_history, load_messages of *)
(* every session and search_messages return, for a session that was       *)
(* deleted, only messages saved since its deletion.                       *)
C28_DeletedStayGone ==
    \A sid \in DirectIds :
        /\ \A r \in load_messages(sid, NoLimit) :
              /\ Len(r) <= Len(log[sid])
              /\ \A i \in 1..Len(r) : \E j \in 1..Len(log[sid]) : Strip(r)[i] = log[sid][j]
        /\ \A r \in search_messages(<<"%">>, DefaultSearchLimit) :
              /\ Cardinality(FoundIn(r, sid)) <= Len(log[sid])
              /\ \A i \in FoundIn(r, sid) : \E j \in 1..Len(log[sid]) :
                    /\ r[i].role = log[sid][j].role
                    /\ r[i].content = log[sid][j].content

(* a session deleted and saved to again, its old message still in the     *)
(* table as an orphan, and load_messages returning the new message only   *)
C28_Witness ==
    /\ last.op = "load_messages" /\ Len(last.ret) = 1
    /\ Len(log[last.sid]) = 1
    /\ \E m \in messages : \A c \in conversations : c.id # m.conversation_id
    /\ Cardinality(messages) = 2
(* ------------------------------------------- interleaved save_message *)
(* save_message run by two connections at once.  Each of its three store  *)
(* transactions is atomic (get_conversation_id, create_conversation, the  *)
(* with-block of INSERT and UPDATE); between them the other connection    *)
(* may run.  The calls save user messages without image.                  *)
InFlight == Cardinality({p \in Callers : calls[p].pc # "idle"})

BeginSaveMessage(p, sid, content) ==
    /\ calls[p].pc = "idle"
    /\ seqMsg + InFlight < MaxMessages
    /\ seqConv + InFlight < MaxConversations
    /\ calls' = [calls EXCEPT ![p] = [pc |-> "lookup", sid |-> sid, content |-> content,
                                      cid |-> NoneId, ok |-> TRUE]]
    /\ last' = [op |-> "save_message:begin", caller |-> p]
    /\ UNCHANGED <<store, foreign_keys, now, current, minted, log,
                   uploaded_file, session_state, run, confirmed>>

(* conversation_id = self.get_conversation_id(session_id) *)
LookupConversation(p) ==
    /\ calls[p].pc = "lookup"
    /\ LET cid == get_conversation_id(calls[p].sid)
       IN  calls' = [calls EXCEPT ![p].cid = cid,
                                  ![p].pc = IF cid = NoneId THEN "create" ELSE "insert"]
    /\ last' = [op |-> "save_message:lookup", caller |-> p]
    /\ UNCHANGED <<store, foreign_keys, now, current, minted, log,
                   uploaded_file, session_state, run, confirmed>>

(* if conversation_id is None: self.create_conversation(...); its         *)
(* IntegrityError is not caught and ends the call                          *)
CreateMissingConversation(p) ==
    /\ calls[p].pc = "create"
    /\ LET r == create_conversation_result(calls[p].sid, Title(calls[p].content))
       IN  /\ conversations' = r.convs
           /\ seqConv' = r.seq
           /\ calls' = [calls EXCEPT ![p].cid = IF r.ok THEN r.ret ELSE NoneId,
                                     ![p].ok = r.ok,
                                     ![p].pc = IF r.ok THEN "insert" ELSE "done"]
    /\ last' = [op |-> "save_message:create", caller |-> p]
    /\ UNCHANGED <<messages, seqMsg, foreign_keys, now, current, minted, log,
                   uploaded_file, session_state, run, confirmed>>

(* the with-block: INSERT INTO messages, UPDATE conversations, commit *)
InsertMessage(p) ==
    /\ calls[p].pc = "insert"
    /\ LET r == insert_and_bump(conversations, calls[p].cid, "user", calls[p].content,
                                NoImage, "ok")
       IN  /\ conversations' = r.convs
           /\ messages' = r.msgs
           /\ seqMsg' = r.seqM
    /\ calls' = [calls EXCEPT ![p].pc = "done"]
    /\ log' = [log EXCEPT ![calls[p].sid] =
                 Append(@, [role |-> "user", content |-> calls[p].content, image |-> NoImage])]
    /\ last' = [op |-> "save_message:insert", caller |-> p]
    /\ UNCHANGED <<seqConv, foreign_keys, now, current, minted,
                   uploaded_file, session_state, run, confirmed>>

(* the call has returned or raised; the connection is free again *)
EndSaveMessage(p) ==
    /\ calls[p].pc = "done"
    /\ calls' = [calls EXCEPT ![p] = IdleCall]
    /\ last' = [op |-> "save_message:end", caller |-> p, ok |-> calls[p].ok]
    /\ UNCHANGED <<store, foreign_keys, now, current, minted, log,
                   uploaded_file, session_state, run, confirmed>>

NextInterleaved ==
    \/ Tick
    \/ \E p \in Callers, sid \in DirectIds, content \in {<<"a">>, <<"b">>} :
          BeginSaveMessage(p, sid, content)
    \/ \E p \in Callers : LookupConversation(p)
    \/ \E p \in Callers : CreateMissingConversation(p)
    \/ \E p \in Callers : InsertMessage(p)
    \/ \E p \in Callers : EndSaveMessage(p)

SpecInterleaved == Init /\ [][NextInterleaved]_vars

(* C29: two save_message calls for one session without a conversation    *)
(* row, interleaved between their store transactions, both complete       *)
(* without error, and both messages are stored under one conversation.    *)
C29_BothComplete ==
    /\ \A p \in Callers : calls[p].pc = "done" => calls[p].ok
    /\ \A p, q \in Callers :
          (p # q /\ calls[p].pc = "done" /\ calls[q].pc = "done"
             /\ calls[p].sid = calls[q].sid /\ Len(log[calls[p].sid]) = 2) =>
          \E c \in conversations :
              /\ c.session_id = calls[p].sid
              /\ Cardinality({m \in messages : m.conversation_id = c.id}) = 2
(* --------------------------------------------- sidebar: clear all history *)
(* a click on the delete-all button of _render_history_actions: with the  *)
(* flag unset the click only sets confirm_clear_all; with the flag set it *)
(* calls clear_all_history and, on success, empties the session state.    *)
(* No branch sets the flag back.                                          *)
ClickClearAll(fail) ==
    IF session_state.confirm_clear_all
    THEN /\ LET r == clear_all_history_result(fail)
            IN  /\ conversations' = r.convs
                /\ messages' = r.msgs
                /\ log' = IF r.ret THEN [s \in AllIds |-> <<>>] ELSE log
                /\ current' = Manager_clear_all_history_current(r.ret)
                /\ session_state' = IF r.ret
                                    THEN [session_state EXCEPT !.current_session_id = None]
                                    ELSE session_state
                /\ confirmed' = IF r.ret THEN FALSE ELSE confirmed
                /\ last' = [op |-> "click_clear_all", confirming |-> FALSE, cleared |-> r.ret]
         /\ UNCHANGED <<seqConv, seqMsg, foreign_keys, now, minted, uploaded_file, run, calls>>
    ELSE /\ session_state' = [session_state EXCEPT !.confirm_clear_all = TRUE]
         /\ confirmed' = TRUE
         /\ last' = [op |-> "click_clear_all", confirming |-> TRUE, cleared |-> FALSE]
         /\ UNCHANGED <<store, foreign_keys, now, current, minted, log,
                        uploaded_file, run, calls>>

NextSidebar ==
    \/ Tick
    \/ \E i \in UserInputs : SaveUserMessage(i[2], i[3])
    \/ \E i \in AssistantInputs : SaveAssistantMessage(i[2])
    \/ \E fail \in FailPoints : ClickClearAll(fail)

SpecSidebar == Init /\ [][NextSidebar]_vars

(* C30: every clearing of the whole history takes two clicks: a click on  *)
(* the delete-all button clears the history only if a confirming click    *)
(* happened since the history was last cleared.                           *)
C30_TwoClicks ==
    [][(last'.op = "click_clear_all" /\ last'.cleared) => confirmed]_vars
(* ------------------------------------------------- app.py: message flow *)
(* the files the uploader widget hands over: its type filter lets only    *)
(* names with an allowed extension through; the bytes are anything        *)
UploadedFiles ==
    {[supplied |-> TRUE, name |-> n, content |-> <<sig>>, pos |-> 0] :
        n \in {"x.png", "x.pdf"}, sig \in {"89PNG", "%PDF", "II*", "MZ"}}
Prompts == {<<"h", "i">>}
Replies == {<<"o", "k">>}

(* process_image: Image.open decides by the bytes; PIL opens more formats *)
(* than the validator allows (TIFF among them)                            *)
process_image(file) ==
    CASE Head(file.content) = "89PNG" -> [ok |-> TRUE, image |-> "PNG"]
      [] Head(file.content) = "FFD8" -> [ok |-> TRUE, image |-> "JPEG"]
      [] Head(file.content) = "II*" -> [ok |-> TRUE, image |-> "TIFF"]
      [] OTHER -> [ok |-> FALSE, image |-> NoImage]

(* process_pdf: text for PDF bytes, None for anything else *)
process_pdf(file) ==
    IF Head(file.content) = "%PDF" THEN [ok |-> TRUE, text |-> <<"pdf text">>]
    ELSE [ok |-> FALSE, text |-> <<>>]

(* the chat handler's use of the uploaded file: classified by the name    *)
(* alone, get_file_type(uploaded_file.name), then processed               *)
user_message(prompt, file) ==
    LET file_type == IF file.supplied
                     THEN (CHOOSE r \in get_file_type(file.name, NoFile, "ok") : TRUE).ret
                     ELSE "unknown"
        img == process_image(file)
        pdf == process_pdf(file)
    IN  IF file_type = "image"
        THEN [passed_to |-> "process_image",
              content |-> IF img.ok THEN prompt \o <<"image", file.name, img.image>> ELSE prompt,
              image |-> img.image]
        ELSE IF file_type = "pdf"
        THEN [passed_to |-> "process_pdf",
              content |-> IF pdf.ok THEN prompt \o <<"pdf", file.name>> \o pdf.text ELSE prompt,
              image |-> NoImage]
        ELSE [passed_to |-> None, content |-> prompt, image |-> NoImage]

(* the sidebar run after a file was put into the uploader: the file is    *)
(* classified with its bytes, an error or a preview is shown, and the     *)
(* widget keeps the file either way                                       *)
UploadFile(file) ==
    /\ run.pc = "idle"
    /\ uploaded_file' = file
    /\ \E r \in get_file_type(file.name, file, "ok") :
          last' = [op |-> "upload", file_type |-> r.ret]
    /\ UNCHANGED <<store, foreign_keys, now, current, minted, log,
                   session_state, run, calls, confirmed>>

(* the script run of a submitted prompt up to its first wait: the user    *)
(* message is built and saved (auto_save); with a file in the uploader    *)
(* the run then resets the uploader and ends in st.rerun(), which has no  *)
(* prompt any more; without a file it goes on to model.invoke             *)
SubmitPrompt(prompt) ==
    LET sid == IF session_state.current_session_id = None
               THEN start_new_session_result.ret
               ELSE session_state.current_session_id
        msg == user_message(prompt, uploaded_file)
        r == save_message_result(sid, "user", msg.content, msg.image)
    IN  /\ run.pc = "idle"
        /\ session_state.current_session_id = None => minted < MaxUuids
        /\ seqMsg + (IF uploaded_file.supplied THEN 1 ELSE 2) <= MaxMessages
        /\ get_conversation_id(sid) = NoneId => seqConv < MaxConversations
        /\ session_state' = [session_state EXCEPT !.current_session_id = sid]
        /\ current' = sid
        /\ minted' = IF session_state.current_session_id = None THEN minted + 1 ELSE minted
        /\ conversations' = r.convs
        /\ messages' = r.msgs
        /\ seqConv' = r.seqC
        /\ seqMsg' = r.seqM
        /\ log' = IF ~r.ok THEN log
                  ELSE [log EXCEPT ![sid] = Append(@, [role |-> "user", content |-> msg.content,
                                                       image |-> msg.image])]
        /\ uploaded_file' = NoFile
        /\ run' = IF uploaded_file.supplied THEN [pc |-> "idle"] ELSE [pc |-> "invoking"]
        /\ last' = [op |-> "submit_prompt", prompt |-> prompt, sid |-> sid,
                    passed_to |-> msg.passed_to, content |-> msg.content,
                    image |-> msg.image, ok |-> r.ok]
        /\ UNCHANGED <<foreign_keys, now, calls, confirmed>>

(* model.invoke returns: the reply is saved to the session of the session *)
(* state and the run ends                                                 *)
ModelReturns(reply) ==
    LET sid == session_state.current_session_id
        r == save_message_result(sid, "assistant", reply, NoImage)
    IN  /\ run.pc = "invoking"
        /\ current' = sid
        /\ conversations' = r.convs
        /\ messages' = r.msgs
        /\ seqConv' = r.seqC
        /\ seqMsg' = r.seqM
        /\ log' = IF ~r.ok THEN log
                  ELSE [log EXCEPT ![sid] = Append(@, [role |-> "assistant", content |-> reply,
                                                       image |-> NoImage])]
        /\ run' = [pc |-> "idle"]
        /\ last' = [op |-> "model_returns", sid |-> sid, ok |-> r.ok]
        /\ UNCHANGED <<foreign_keys, now, minted, uploaded_file, session_state,
                       calls, confirmed>>

NextApp ==
    \/ \E file \in UploadedFiles : UploadFile(file)
    \/ \E prompt \in Prompts : SubmitPrompt(prompt)
    \/ \E reply \in Replies : ModelReturns(reply)

SpecApp == Init /\ [][NextApp]_vars

(* an invoke that was started returns *)
SpecAppLive == SpecApp /\ WF_vars(\E reply \in Replies : ModelReturns(reply))

(* the validator rejected the content of the file in the uploader *)
Rejected(file) ==
    /\ file.supplied
    /\ \A r \in get_file_type(file.name, file, "ok") : r.ret = "unknown"

(* C24: a file whose content the validator rejected is not passed to      *)
(* image or PDF processing and adds nothing to the saved message when a   *)
(* prompt is submitted.                                                   *)
C24_RejectedStaysOut ==
    [][(last'.op = "submit_prompt" /\ Rejected(uploaded_file)) =>
          /\ last'.passed_to = None
          /\ last'.content = last'.prompt
          /\ last'.image = NoImage]_vars

(* the user messages of a session outnumber its assistant messages *)
Unanswered(sid) ==
    Cardinality({i \in 1..Len(log[sid]) : log[sid][i].role = "user"})
      > Cardinality({i \in 1..Len(log[sid]) : log[sid][i].role = "assistant"})

(* C25: every saved user message is eventually followed by a saved reply  *)
(* in the same session.                                                   *)
C25_EveryPromptAnswered ==
    \A sid \in AllIds : Unanswered(sid) ~> ~Unanswered(sid)
====
